---- MODULE Spec2Model ----
(***************************************************************************)
(* A model of src/src/sse_mcp/operatemysql.py: one tool call handled by    *)
(* call_tool, the SQL builders, and execute_sql with its security gate     *)
(* my_check, run against a MySQL driver whose answers are nondeterministic.*)
(*                                                                         *)
(* A Python str is a sequence of atoms.  An atom is either a separator     *)
(* character (" ", "\t", ";", ",") or a run of other characters            *)
(* ("select", "SELECT", "drop", a piece of a fixed SQL template).          *)
(***************************************************************************)
EXTENDS Integers, Sequences, FiniteSets, TLC

\* ------------------------------------------------------------------ bounds
\* Longest query handed to the execute_sql tool, in atoms.
MaxLen == 4
\* Longest text handed to the get_table_* / get_chinese_initials tools.
MaxText == 2

\* ----------------------------------------------------------- Python strings
\* Python's None: a value that is no string over the atoms above.
None == <<"<None>">>

\* The atoms tool arguments are made of.
QueryChars == {"select", "SELECT", "drop", " ", "\t", ";"}
\* "<FF0C>" stands for the full-width comma U+FF0C.
TextChars == {"drop", ";", ",", "<FF0C>"}

\* str.strip() removes these from both ends; str.split(' ') cuts at " " only.
Whitespace == {" ", "\t"}

StringsOver(chars, n) == UNION {[1..k -> chars] : k \in 0..n}

\* str.lower(), atom by atom.
lower_char(c) == IF c = "SELECT" THEN "select" ELSE c
lower(s) == [i \in 1..Len(s) |-> lower_char(s[i])]

\* str.upper(), atom by atom.
upper_char(c) == IF c = "select" THEN "SELECT" ELSE IF c = "drop" THEN "DROP" ELSE c
upper(s) == [i \in 1..Len(s) |-> upper_char(s[i])]

\* str.split(sep): cut at every occurrence of sep, empty pieces kept.
RECURSIVE split(_, _)
split(s, sep) ==
    IF \A i \in 1..Len(s) : s[i] # sep
    THEN <<s>>
    ELSE LET i == CHOOSE j \in 1..Len(s) :
                      s[j] = sep /\ \A h \in 1..(j - 1) : s[h] # sep
         IN  <<SubSeq(s, 1, i - 1)>> \o split(SubSeq(s, i + 1, Len(s)), sep)

\* str.strip(): drop leading and trailing whitespace.
RECURSIVE lstrip(_)
lstrip(s) ==
    IF s # <<>> /\ Head(s) \in Whitespace THEN lstrip(Tail(s)) ELSE s
RECURSIVE rstrip(_)
rstrip(s) ==
    IF s # <<>> /\ s[Len(s)] \in Whitespace
    THEN rstrip(SubSeq(s, 1, Len(s) - 1))
    ELSE s
strip(s) == rstrip(lstrip(s))

\* sep.join(parts)
RECURSIVE join(_, _)
join(sep, parts) ==
    IF parts = <<>> THEN <<>>
    ELSE IF Len(parts) = 1 THEN parts[1]
    ELSE parts[1] \o sep \o join(sep, Tail(parts))

Range(s) == {s[i] : i \in 1..Len(s)}

\* ------------------------------------------------------------- environment
\* The values the environment variable ALLOW_METHODS takes here (None: unset).
AllowMethodsEnv == {None, <<"select">>, <<"select", ",", "drop">>}

\* line 14: (os.getenv("ALLOW_METHODS") or "select,update,show").split(',')
AllowMethodsOf(env) ==
    split(IF env = None \/ env = <<>>
          THEN <<"select", ",", "update", ",", "show">>
          ELSE env,
          ",")

\* ------------------------------------------------------------------- state
VARIABLES
    ALLOW_METHODS,  \* the module-level list of allowed verbs
    configured,     \* MYSQL_USER, MYSQL_PASSWORD and MYSQL_DATABASE are all set
    name,           \* call_tool's name
    arguments,      \* call_tool's arguments: a function from keys to strings
    pc,             \* where the call is
    query,          \* execute_sql's parameter
    statements,     \* execute_sql's list of statements
    idx,            \* position of the for loop in statements (1-based)
    results,        \* execute_sql's list of results
    conn,           \* "none", "open" or "closed"
    connections,    \* how many connections the call has opened
    driver,         \* what the call asked of the driver, in order
    checks,         \* the calls of my_check: statement and returned message
    pending,        \* positions of statements executed but not committed
    committed,      \* positions of statements whose effect is committed
    outcome         \* how call_tool ended: nothing yet, a return or a raise

vars == <<ALLOW_METHODS, configured, name, arguments, pc, query, statements,
          idx, results, conn, connections, driver, checks, pending, committed,
          outcome>>

ToolNames == {"execute_sql", "get_chinese_initials", "get_table_name",
              "get_table_desc", "get_table_index", "get_lock_tables"}

NoArguments == <<>>
QueryArguments == {[k \in {"query"} |-> q] : q \in StringsOver(QueryChars, MaxLen)}
TextArguments == {[k \in {"text"} |-> t] : t \in StringsOver(TextChars, MaxText)}

\* The requests a client sends: a tool with the argument its schema names,
\* or without it, or a name that is no tool.
Requests ==
    ({"execute_sql"} \X (QueryArguments \cup {NoArguments}))
    \cup (({"get_chinese_initials", "get_table_name", "get_table_desc",
            "get_table_index"}) \X (TextArguments \cup {NoArguments}))
    \cup ({"get_lock_tables", "no_such_tool"} \X {NoArguments})

\* dict.get(key)
get(d, key) == IF key \in DOMAIN d THEN d[key] ELSE None

Init ==
    /\ \E env \in AllowMethodsEnv : ALLOW_METHODS = AllowMethodsOf(env)
    /\ configured \in BOOLEAN
    /\ \E r \in Requests : name = r[1] /\ arguments = r[2]
    /\ pc = "call_tool"
    /\ query = None
    /\ statements = <<>>
    /\ idx = 0
    /\ results = <<>>
    /\ conn = "none"
    /\ connections = 0
    /\ driver = <<>>
    /\ checks = <<>>
    /\ pending = {}
    /\ committed = {}
    /\ outcome = [kind |-> "none"]

\* ------------------------------------------------------------ how a call ends
Return(text) == [kind |-> "return", text |-> text]
Raise(exception, message) ==
    [kind |-> "raise", exception |-> exception, message |-> message]

\* An event of the driver log: the operation, the position and text of the
\* statement it is about (0 and "" when it is about none), the state of the
\* connection it was asked on, and what the driver answered.
Event(op, k, statement, answer) ==
    [op |-> op, k |-> k, statement |-> statement, conn |-> conn, answer |-> answer]

\* Leaving the "with connect(...) as conn" block: the connection is closed.
Released(log) == Append(log, Event("close", 0, <<>>, "ok"))

\* ---------------------------------------------------------------- my_check
\* line 85: statement.split(' ')[0].lower()
cmd_of(statement) == lower(split(statement, " ")[1])

my_check(statement) ==
    IF ";" \in Range(statement)
    THEN <<"[internal security check] more than one statement at once is forbidden">>
    ELSE IF cmd_of(statement) \notin Range(ALLOW_METHODS)
    THEN <<"[internal security check] operation not allowed: ">> \o cmd_of(statement)
         \o <<", allowed now: ">> \o join(<<",">>, ALLOW_METHODS)
    ELSE <<>>

\* ------------------------------------------------------------- get_db_config
\* lines 43-44: raise ValueError unless user, password and database are set.
get_db_config_raises == ~configured
MissingConfig == Raise("ValueError", <<"required database configuration is missing">>)

\* --------------------------------------------------------------- call_tool
Missing(value) == value = None \/ value = <<>>

Enter(function) ==
    /\ pc' = function
    /\ UNCHANGED <<ALLOW_METHODS, configured, name, arguments, query, statements,
                   idx, results, conn, connections, driver, checks, pending,
                   committed, outcome>>

Finish(how) ==
    /\ pc' = "done"
    /\ outcome' = how
    /\ UNCHANGED <<ALLOW_METHODS, configured, name, arguments, query, statements,
                   idx, results, conn, connections, driver, checks, pending,
                   committed>>

call_tool ==
    /\ pc = "call_tool"
    /\ IF name = "execute_sql"
       THEN IF Missing(get(arguments, "query"))
            THEN Finish(Raise("ValueError", <<"missing query">>))
            ELSE /\ pc' = "execute_sql"
                 /\ query' = get(arguments, "query")
                 /\ UNCHANGED <<ALLOW_METHODS, configured, name, arguments,
                                statements, idx, results, conn, connections,
                                driver, checks, pending, committed, outcome>>
       ELSE IF name = "get_chinese_initials"
       THEN IF Missing(get(arguments, "text"))
            THEN Finish(Raise("ValueError", <<"missing text">>))
            ELSE Enter("get_chinese_initials")
       ELSE IF name \in {"get_table_name", "get_table_desc", "get_table_index"}
       THEN IF Missing(get(arguments, "text"))
            THEN Finish(Raise("ValueError", <<"missing table information">>))
            ELSE Enter(name)
       ELSE IF name = "get_lock_tables"
       THEN Enter("get_lock_tables")
       ELSE Finish(Raise("ValueError", <<"unknown tool: ">> \o <<name>>))

\* ------------------------------------------------------ get_chinese_initials
\* pinyin(word, style=Style.FIRST_LETTER) and p[0].upper(): a run that is not
\* Chinese comes back whole, and is upper-cased.
word_initials(word) == upper(word)

get_chinese_initials ==
    /\ pc = "get_chinese_initials"
    /\ LET words == split(arguments["text"], "<FF0C>")
           initials == [i \in 1..Len(words) |-> word_initials(words[i])]
       IN  Finish(Return(join(<<",">>, initials)))

\* ----------------------------------------------------------- the builders
\* A builder that calls get_db_config() raises its ValueError; otherwise it
\* hands its SQL to execute_sql.
Build(sql, needs_config) ==
    IF needs_config /\ get_db_config_raises
    THEN Finish(MissingConfig)
    ELSE /\ pc' = "execute_sql"
         /\ query' = sql
         /\ UNCHANGED <<ALLOW_METHODS, configured, name, arguments, statements,
                        idx, results, conn, connections, driver, checks,
                        pending, committed, outcome>>

\* lines 182-184 and 204-206: "','".join(name.strip() for name in text.split(','))
table_condition(text) ==
    LET names == split(text, ",")
    IN  join(<<"','">>, [i \in 1..Len(names) |-> strip(names[i])])

get_table_name ==
    /\ pc = "get_table_name"
    /\ Build(<<"SELECT", " ", "TABLE_SCHEMA, TABLE_NAME, TABLE_COMMENT ",
               "FROM information_schema.TABLES WHERE TABLE_SCHEMA = '",
               "{database}", "' AND TABLE_COMMENT LIKE '%">>
             \o arguments["text"] \o <<"%'", ";">>, TRUE)

get_table_desc ==
    /\ pc = "get_table_desc"
    /\ Build(<<"SELECT", " ", "TABLE_NAME, COLUMN_NAME, COLUMN_COMMENT ",
               "FROM information_schema.COLUMNS WHERE TABLE_SCHEMA = '",
               "{database}", "' ", "AND TABLE_NAME IN ('">>
             \o table_condition(arguments["text"])
             \o <<"') ORDER BY TABLE_NAME, ORDINAL_POSITION", ";">>, TRUE)

get_table_index ==
    /\ pc = "get_table_index"
    /\ Build(<<"SELECT", " ",
               "TABLE_NAME, INDEX_NAME, COLUMN_NAME, SEQ_IN_INDEX, NON_UNIQUE, INDEX_TYPE ",
               "FROM information_schema.STATISTICS WHERE TABLE_SCHEMA = '",
               "{database}", "' ", "AND TABLE_NAME IN ('">>
             \o table_condition(arguments["text"])
             \o <<"') ORDER BY TABLE_NAME, INDEX_NAME, SEQ_IN_INDEX", ";">>, TRUE)

get_lock_tables ==
    /\ pc = "get_lock_tables"
    /\ Build(<<"SELECT", " ", "p2.HOST ... FROM information_schema.INNODB_LOCK_WAITS w ",
               "INNER JOIN ... ORDER BY ... DESC", ";">>, FALSE)

\* -------------------------------------------------------------- execute_sql
\* line 111: [stmt.strip() for stmt in query.split(';') if stmt.strip()]
RECURSIVE stripped_nonempty(_)
stripped_nonempty(pieces) ==
    IF pieces = <<>> THEN <<>>
    ELSE (IF strip(Head(pieces)) # <<>> THEN <<strip(Head(pieces))>> ELSE <<>>)
         \o stripped_nonempty(Tail(pieces))

\* Mutants of split_statements: the empty pieces are kept; the query is not
\* cut at ";" at all.
split_statements_keeps_empty(q) ==
    LET pieces == split(q, ";") IN [i \in 1..Len(pieces) |-> strip(pieces[i])]
split_statements_whole(q) == stripped_nonempty(<<q>>)

split_statements(q) == stripped_nonempty(split(q, ";"))

\* An entry of results, with the statement it is the result of.
ResultSet(statement) ==
    [kind |-> "ResultSet", statement |-> statement,
     text |-> <<"{columns}\n{rows}">>]
MutationSummary(statement) ==
    [kind |-> "MutationSummary", statement |-> statement,
     text |-> <<"Query executed successfully. Rows affected: ", "{rowcount}">>]
StatementError(statement) ==
    [kind |-> "StatementError", statement |-> statement,
     text |-> <<"Statement '">> \o statement \o <<"' failed: ", "{stmt_error}">>]

\* line 146: "\n---\n".join(results)
results_text(rs) == join(<<"\n---\n">>, [i \in 1..Len(rs) |-> rs[i].text])

\* lines 148-150: the outer "except Error" returns one text.
TopLevelError == Return(<<"Error while executing the query: ", "{e}">>)

\* line 107: config = get_db_config(), outside the try.
execute_sql ==
    /\ pc = "execute_sql"
    /\ IF get_db_config_raises
       THEN Finish(MissingConfig)
       ELSE Enter("connect")

\* Mutant of connect: an Error of connect is swallowed and the call goes on.
connect_swallows_error ==
    /\ pc = "connect"
    /\ \E answer \in {"ok", "Error"} :
         /\ driver' = Append(driver, Event("connect", 0, <<>>, answer))
         /\ IF answer = "ok"
            THEN /\ conn' = "open"
                 /\ connections' = connections + 1
            ELSE UNCHANGED <<conn, connections>>
    /\ pc' = "cursor"
    /\ UNCHANGED <<ALLOW_METHODS, configured, name, arguments, query, statements,
                   idx, results, checks, pending, committed, outcome>>

\* line 109: connect(**config) opens the connection, or raises Error, which
\* the outer except turns into the top-level error text.
connect ==
    /\ pc = "connect"
    /\ \E answer \in {"ok", "Error"} :
         /\ driver' = Append(driver, Event("connect", 0, <<>>, answer))
         /\ IF answer = "ok"
            THEN /\ conn' = "open"
                 /\ connections' = connections + 1
                 /\ pc' = "cursor"
                 /\ UNCHANGED outcome
            ELSE /\ pc' = "done"
                 /\ outcome' = TopLevelError
                 /\ UNCHANGED <<conn, connections>>
    /\ UNCHANGED <<ALLOW_METHODS, configured, name, arguments, query, statements,
                   idx, results, checks, pending, committed>>

\* lines 110-112: conn.cursor() gives the cursor, the query is split and the
\* loop starts; or conn.cursor() raises Error, the with block closes the
\* connection and the outer except returns the top-level error text.
cursor ==
    /\ pc = "cursor"
    /\ \E answer \in {"ok", "Error"} :
         IF answer = "ok"
         THEN /\ driver' = Append(driver, Event("cursor", 0, <<>>, answer))
              /\ statements' = split_statements(query)
              /\ results' = <<>>
              /\ idx' = 1
              /\ pc' = "for"
              /\ UNCHANGED <<conn, outcome>>
         ELSE /\ driver' = Released(Append(driver, Event("cursor", 0, <<>>, answer)))
              /\ conn' = "closed"
              /\ pc' = "done"
              /\ outcome' = TopLevelError
              /\ UNCHANGED <<statements, results, idx>>
    /\ UNCHANGED <<ALLOW_METHODS, configured, name, arguments, query,
                   connections, checks, pending, committed>>

\* Mutants of check_statement: the message of my_check is ignored; the raise
\* leaves the connection open.
check_statement_unchecked ==
    /\ pc = "for"
    /\ idx <= Len(statements)
    /\ checks' = Append(checks, [k |-> idx, statement |-> statements[idx],
                                 error_msg |-> my_check(statements[idx])])
    /\ pc' = "execute"
    /\ UNCHANGED <<ALLOW_METHODS, configured, name, arguments, query, statements,
                   idx, results, conn, connections, driver, pending, committed,
                   outcome>>
check_statement_leaks ==
    /\ pc = "for"
    /\ idx <= Len(statements)
    /\ LET error_msg == my_check(statements[idx])
       IN  /\ checks' = Append(checks, [k |-> idx, statement |-> statements[idx],
                                        error_msg |-> error_msg])
           /\ IF error_msg # <<>>
              THEN /\ pc' = "done"
                   /\ outcome' = Raise("ValueError", error_msg)
              ELSE /\ pc' = "execute"
                   /\ UNCHANGED outcome
    /\ UNCHANGED <<ALLOW_METHODS, configured, name, arguments, query, statements,
                   idx, results, conn, connections, driver, pending, committed>>

\* lines 114-118: the next statement goes through my_check.  A message makes
\* line 118 raise ValueError, which neither "except Error" catches: the with
\* blocks close the connection and the exception leaves execute_sql and
\* call_tool.
check_statement ==
    /\ pc = "for"
    /\ idx <= Len(statements)
    /\ LET statement == statements[idx]
           error_msg == my_check(statement)
       IN  /\ checks' = Append(checks, [k |-> idx, statement |-> statement,
                                        error_msg |-> error_msg])
           /\ IF error_msg # <<>>
              THEN /\ driver' = Released(driver)
                   /\ conn' = "closed"
                   /\ pending' = {}
                   /\ pc' = "done"
                   /\ outcome' = Raise("ValueError", error_msg)
              ELSE /\ pc' = "execute"
                   /\ UNCHANGED <<driver, conn, pending, outcome>>
    /\ UNCHANGED <<ALLOW_METHODS, configured, name, arguments, query, statements,
                   idx, results, connections, committed>>

\* Mutant of cursor_execute: the commit follows a result set too.
cursor_execute_commits_all ==
    /\ pc = "execute"
    /\ \E answer \in {"Error", "description", "no description"} :
         /\ driver' = Append(driver, Event("execute", idx, statements[idx], answer))
         /\ IF answer = "Error"
            THEN /\ results' = Append(results, StatementError(statements[idx]))
                 /\ idx' = idx + 1
                 /\ pc' = "for"
                 /\ UNCHANGED pending
            ELSE /\ pc' = "commit"
                 /\ pending' = pending \cup {idx}
                 /\ UNCHANGED <<results, idx>>
    /\ UNCHANGED <<ALLOW_METHODS, configured, name, arguments, query, statements,
                   conn, connections, checks, committed, outcome>>

\* line 120: cursor.execute(statement).  The driver raises Error (lines
\* 141-143 record it and the loop goes on), or answers with a description (a
\* result set) or without one.
cursor_execute ==
    /\ pc = "execute"
    /\ \E answer \in {"Error", "description", "no description"} :
         /\ driver' = Append(driver, Event("execute", idx, statements[idx], answer))
         /\ IF answer = "Error"
            THEN /\ results' = Append(results, StatementError(statements[idx]))
                 /\ idx' = idx + 1
                 /\ pc' = "for"
                 /\ UNCHANGED pending
            ELSE IF answer = "description"
            THEN /\ pc' = "fetchall"
                 /\ UNCHANGED <<results, idx, pending>>
            ELSE /\ pc' = "commit"
                 /\ pending' = pending \cup {idx}
                 /\ UNCHANGED <<results, idx>>
    /\ UNCHANGED <<ALLOW_METHODS, configured, name, arguments, query, statements,
                   conn, connections, checks, committed, outcome>>

\* lines 123-134: the rows are fetched and formatted; no commit.  An Error of
\* fetchall is recorded like one of execute.
fetchall ==
    /\ pc = "fetchall"
    /\ \E answer \in {"ok", "Error"} :
         /\ driver' = Append(driver, Event("fetchall", idx, statements[idx], answer))
         /\ results' = Append(results, IF answer = "ok"
                                       THEN ResultSet(statements[idx])
                                       ELSE StatementError(statements[idx]))
    /\ idx' = idx + 1
    /\ pc' = "for"
    /\ UNCHANGED <<ALLOW_METHODS, configured, name, arguments, query, statements,
                   conn, connections, checks, pending, committed, outcome>>

\* lines 137-139: conn.commit() makes what is pending durable and the summary
\* is recorded; an Error of commit is recorded like one of execute, and the
\* server has either rolled the transaction back or left it open.
commit ==
    /\ pc = "commit"
    /\ \E answer \in {"ok", "Error"} :
         /\ driver' = Append(driver, Event("commit", idx, statements[idx], answer))
         /\ IF answer = "ok"
            THEN /\ committed' = committed \cup pending
                 /\ pending' = {}
                 /\ results' = Append(results, MutationSummary(statements[idx]))
            ELSE /\ results' = Append(results, StatementError(statements[idx]))
                 /\ pending' \in {pending, {}}
                 /\ UNCHANGED committed
    /\ idx' = idx + 1
    /\ pc' = "for"
    /\ UNCHANGED <<ALLOW_METHODS, configured, name, arguments, query, statements,
                   conn, connections, checks, outcome>>

\* line 146: after the last statement the joined results are returned, and
\* the with blocks close the connection.
return_results ==
    /\ pc = "for"
    /\ idx > Len(statements)
    /\ driver' = Released(driver)
    /\ conn' = "closed"
    /\ pending' = {}
    /\ pc' = "done"
    /\ outcome' = Return(results_text(results))
    /\ UNCHANGED <<ALLOW_METHODS, configured, name, arguments, query, statements,
                   idx, results, connections, checks, committed>>

Next ==
    \/ call_tool
    \/ get_chinese_initials
    \/ get_table_name
    \/ get_table_desc
    \/ get_table_index
    \/ get_lock_tables
    \/ execute_sql
    \/ connect
    \/ cursor
    \/ check_statement
    \/ cursor_execute
    \/ fetchall
    \/ commit
    \/ return_results

Spec == Init /\ [][Next]_vars

\* ===================================================================== claims
\* What the claims speak of, read off the driver log and the query.

\* The call got as far as the loop over the statements.
LoopStarted == \E i \in 1..Len(driver) : driver[i].op = "cursor" /\ driver[i].answer = "ok"

Events(op) == {i \in 1..Len(driver) : driver[i].op = op}
Rejections == {i \in 1..Len(checks) : checks[i].error_msg # <<>>}
ResultsOfKind(kind) == {i \in 1..Len(results) : results[i].kind = kind}
DriverErrors ==
    {i \in 1..Len(driver) :
        driver[i].op \in {"execute", "fetchall", "commit"} /\ driver[i].answer = "Error"}

\* The segments of a query, by position instead of by split and strip: a
\* piece is a maximal stretch without ";", from q[p[1]] to q[p[2]].
Pieces(q) ==
    {p \in (1..(Len(q) + 1)) \X (0..Len(q)) :
        /\ p[1] <= p[2] + 1
        /\ p[1] = 1 \/ q[p[1] - 1] = ";"
        /\ p[2] = Len(q) \/ q[p[2] + 1] = ";"
        /\ \A h \in p[1]..p[2] : q[h] # ";"}
Inked(q, p) == {h \in p[1]..p[2] : q[h] \notin Whitespace}
Segments(q) == {p \in Pieces(q) : Inked(q, p) # {}}
Min(S) == CHOOSE x \in S : \A y \in S : x <= y
Max(S) == CHOOSE x \in S : \A y \in S : x >= y
\* The i-th segment, trimmed.
Segment(q, i) ==
    LET p == CHOOSE s \in Segments(q) :
                 Cardinality({r \in Segments(q) : r[1] < s[1]}) = i - 1
    IN  SubSeq(q, Min(Inked(q, p)), Max(Inked(q, p)))

\* The first token of a statement, ended by any whitespace character.
FirstToken(statement) ==
    LET blanks == {h \in 1..Len(statement) : statement[h] \in Whitespace}
    IN  IF blanks = {} THEN statement ELSE SubSeq(statement, 1, Min(blanks) - 1)

\* C1: whenever my_check rejects the statement at position k, a StatementError
\* for that statement is appended to results at position k and the loop goes
\* on to the statements after k: the call does not end by raising, and when
\* it has ended every statement has been through my_check.
C1_RejectionRecordedBatchContinues ==
    \A i \in Rejections :
        /\ outcome.kind # "raise"
        /\ Len(results) >= checks[i].k
        /\ results[checks[i].k].kind = "StatementError"
        /\ results[checks[i].k].statement = checks[i].statement
        /\ pc = "done" => Len(checks) = Len(statements)

\* C2: a call that passed call_tool's argument validation and entered
\* execute_sql or a builder ends by returning a text, never by raising.
EnteredCore ==
    \/ name = "execute_sql" /\ ~Missing(get(arguments, "query"))
    \/ name \in {"get_table_name", "get_table_desc", "get_table_index"}
       /\ ~Missing(get(arguments, "text"))
    \/ name = "get_lock_tables"
C2_CoreErrorsBecomeText ==
    (pc = "done" /\ EnteredCore) => outcome.kind = "return"

\* C3: a statement at position k that fails (my_check rejects it, or the
\* driver raises for it) does not keep the statements after k from being
\* processed, and every statement whose commit the driver completed is
\* committed when the call has ended.
FailedAt(k) ==
    \/ \E i \in Rejections : checks[i].k = k
    \/ k \in ResultsOfKind("StatementError")
Processed(k) == \E i \in 1..Len(checks) : checks[i].k = k
C3_FailureStopsNothing ==
    (pc = "done" /\ LoopStarted) =>
        /\ \A k \in 1..Len(statements) :
               FailedAt(k) => \A j \in (k + 1)..Len(statements) : Processed(j)
        /\ \A i \in Events("commit") :
               driver[i].answer = "ok" => driver[i].k \in committed

\* The part of C3 about the driver alone: a statement for which execute,
\* fetchall or commit raised Error is followed by the check of the next one,
\* and what the driver committed stays committed from one step to the next.
C3_DriverErrorStopsNothing ==
    /\ \A i \in DriverErrors :
           driver[i].k < Len(statements) =>
               \/ pc = "for" /\ idx = driver[i].k + 1
               \/ Processed(driver[i].k + 1)
    /\ \A i \in Events("commit") :
           driver[i].answer = "ok" => driver[i].k \in committed

\* C9: my_check allows a trimmed statement without ";" exactly when its first
\* whitespace-delimited token, lower-cased, is in ALLOW_METHODS.
C9_AllowedIffFirstTokenListed ==
    \A i \in 1..Len(checks) :
        (checks[i].error_msg = <<>>)
            <=> (lower(FirstToken(checks[i].statement)) \in Range(ALLOW_METHODS))

\* C4: a statement my_check rejects is never passed to cursor.execute: every
\* statement executed against the driver is one for which my_check, called
\* at that position, returned the empty string.
C4_RejectedNeverExecuted ==
    \A i \in Events("execute") :
        \E j \in 1..Len(checks) :
            /\ checks[j].k = driver[i].k
            /\ checks[j].statement = driver[i].statement
            /\ checks[j].error_msg = <<>>
C4_Witness ==
    /\ Rejections # {}
    /\ Events("execute") # {}

\* C10: every statement handed to my_check is a non-empty trimmed piece of the
\* query without ";", so my_check never answers with the message about more
\* than one statement: a rejection is always the one about the allow-list.
C10_OnlyAllowListRejections ==
    \A i \in 1..Len(checks) :
        /\ checks[i].statement # <<>>
        /\ Head(checks[i].statement) \notin Whitespace
        /\ checks[i].statement[Len(checks[i].statement)] \notin Whitespace
        /\ ";" \notin Range(checks[i].statement)
        /\ checks[i].error_msg # <<>> =>
               Head(checks[i].error_msg)
                   = "[internal security check] operation not allowed: "
C10_Witness ==
    /\ ";" \in Range(query)
    /\ Rejections # {}
    /\ Len(checks) >= 2

C6_ConnectionReleased ==
    /\ connections <= 1
    /\ Cardinality(Events("close")) <= connections
    /\ conn = "none" <=> connections = 0
    /\ pc = "done" => conn # "open"
    /\ \A i \in 1..Len(driver) :
           driver[i].op \in {"cursor", "execute", "fetchall", "commit", "close"}
               => driver[i].conn = "open"
C6_Witness ==
    /\ pc = "done"
    /\ conn = "closed"
    /\ outcome.kind = "raise"
    /\ Events("execute") # {}

\* C7: when connect raises, the call executes no statement, issues no commit
\* and returns the one top-level error text instead of the joined results.
ConnectFailed ==
    \E i \in Events("connect") : driver[i].answer = "Error"
====
